---- MODULE Spec2Model ----
(***************************************************************************)
(* Shipwright / scribe: the authoring facade (Run, Parallel, Background),  *)
(* the step graph it builds, the plumbing.WaitGroup that runs one frontier *)
(* of steps, the walk of the step graph by the container backend, the      *)
(* backend's Done with its walk of the pipeline graph, the validation of   *)
(* declared steps, the log wrapper, and Shipwright.Done with the -step     *)
(* option and the signal watcher.                                          *)
(***************************************************************************)
EXTENDS Integers, Sequences, FiniteSets, TLC

(***************************************************************************)
(* Bounds of the model.                                                    *)
(***************************************************************************)
\* Largest serial a declaration may assign.
MaxSerial == 7
\* Largest number of steps handed to one Run / Parallel / Background call.
MaxBatch == 3
\* Largest number of functions added to a stand-alone wait group.
MaxFuncs == 3
\* Longest time, in clock ticks, a function of a wait group runs before it
\* returns; the timeouts tried are 0..MaxDur+1.
MaxDur == 1
\* Largest number of pipelines in the pipeline graph a run walks.
MaxPipelines == 3
\* Largest number of steps declared when every step is validated.
MaxDeclared == 3
\* Largest number of steps in a frontier handed to the log wrapper.
MaxWrapped == 2
\* Largest number of lines an action writes to its output streams.
MaxLines == 1

(***************************************************************************)
(* Program constants.                                                      *)
(***************************************************************************)
\* Serial of the synthetic root node of every step graph.
RootSerial == 0
\* First serial handed out by a fresh client.
InitialSerial == 1

StepTypeDefault == "Default"
StepTypeBackground == "Background"
StepTypeSubPipeline == "SubPipeline"

VARIABLES
    n,            \* Shipwright.n: the serial the next step receives
    Collection,   \* Shipwright.Collection: the default pipeline's step graph
    hist,         \* the declaration calls made so far, in order
    timeout,      \* WaitGroup.timeout, in clock ticks
    now,          \* clock ticks since Wait created its timer
    gs,           \* WaitGroup.funcs and the goroutine Wait starts for each
    sendq,        \* the goroutines blocked in "errChan <- err", oldest first
    doneClosed,   \* doneChan has been closed
    timerFired,   \* the timer has delivered on t.C
    waitPC,       \* where Wait is: "idle", "select", "returned"
    waitRet,      \* what Wait returned: "none", "nil", "error", "time out"
    waitErrOf,    \* the function whose error Wait returned (0: none)
    ctxDone,      \* the run's context (context.Background()) has been cancelled
    firstFailed,  \* the first function that returned an error (0: none)
    delivered,    \* the frontiers handed to the step visitor, in order
    walkPC,       \* where the walk of the step graph is: "idle", "walking",
                  \* "returned", or "exited" with the process
    walkRet,      \* what the walk returned: "none", "nil", "error", "time out", "create"
    network,      \* Done's network: "none", "created", "failed" (CreateNetwork's error)
    volume,       \* the run's pipeline volume: "none", "created"
    container,    \* the compile container: "none", "created", "ran"
    donePC,       \* where Client.Done is: "idle", "network", "volume", "container",
                  \* "build", "walk", "returned"
    doneRet,      \* what Client.Done returned: "none", "nil", "compile", "error"
    pipelines,    \* the pipeline frontiers the walker hands to walkPipelines
    pwalk,        \* per pipeline, its runPipeline: "pending", "running", "nil", "error"
    pidx,         \* the number of pipeline frontiers handed to the visitor
    pjoin,        \* the pipeline wait group of the current frontier: "idle",
                  \* "waiting", "nil", "error"
    sublog,       \* the sub-pipelines whose failure has been logged
    client,       \* Shipwright.Client: "docker", or "custom" for any other backend
    exited,       \* Log.Fatalln has ended the process
    fatal,        \* the message Log.Fatalln was called with ("": none)
    warned,       \* the messages Log.Warnln was called with, in order
    frontier,     \* the steps LogWrapper.Wrap's visitor was called with
    handed,       \* the steps handed to the inner visitor
    exec,         \* per step of the frontier, the execution of its Content
    wrapPC,       \* the wrapped visitor: "idle", "called", "visiting", "returned"
    argStep,      \* Opts.Args.Step, the -step option (0: not given)
    status,       \* Shipwright.Done: "none", "started", "panic", or the status of
                  \* "execution completed": "success", "error", "cancelled"
    orphans       \* the steps whose containers were running when the process exited

authVars == <<n, Collection, hist>>
wgVars == <<timeout, now, gs, sendq, doneClosed, timerFired, waitPC, waitRet,
            waitErrOf, ctxDone, firstFailed>>
walkVars == <<delivered, walkPC, walkRet>>
doneVars == <<network, volume, container, donePC, doneRet, pipelines, pwalk, pidx,
              pjoin, sublog>>
valVars == <<client, exited, fatal, warned>>
logVars == <<frontier, handed, exec, wrapPC>>
runVars == <<argStep, status, orphans>>
vars == <<n, Collection, hist, timeout, now, gs, sendq, doneClosed, timerFired,
          waitPC, waitRet, waitErrOf, ctxDone, firstFailed, delivered,
          walkPC, walkRet, network, volume, container, donePC, doneRet,
          pipelines, pwalk, pidx, pjoin, sublog, client, exited, fatal, warned,
          frontier, handed, exec, wrapPC, argStep, status, orphans>>

(***************************************************************************)
(* Sequence helpers.                                                       *)
(***************************************************************************)
Range(s) == {s[i] : i \in 1..Len(s)}

RECURSIVE Flatten(_)
Flatten(ss) == IF ss = <<>> THEN <<>> ELSE Head(ss) \o Flatten(Tail(ss))

Serials(steps) == [i \in 1..Len(steps) |-> steps[i].Serial]

(***************************************************************************)
(* The step graph: nodes in insertion order, edges in insertion order, and *)
(* the attachment set the next batch is connected to.                      *)
(***************************************************************************)
EmptyCollection ==
    [nodes |-> <<>>, edges |-> <<>>, attach |-> <<RootSerial>>]

\* Collection.Append: every background step of the batch hangs off the root
\* and stays out of the attachment set; every other step gets an edge from
\* each current attachment leaf, and the batch becomes the attachment set.
EdgesFor(c, step) ==
    IF step.Type = StepTypeBackground
    THEN << <<RootSerial, step.Serial>> >>
    ELSE [j \in 1..Len(c.attach) |-> <<c.attach[j], step.Serial>>]

AppendSteps(c, steps) ==
    LET fg == SelectSeq(steps, LAMBDA s : s.Type # StepTypeBackground)
    IN  [nodes  |-> c.nodes \o steps,
         edges  |-> c.edges \o Flatten([i \in 1..Len(steps) |-> EdgesFor(c, steps[i])]),
         attach |-> IF fg = <<>> THEN c.attach ELSE Serials(fg)]

\* The successors of a node, in the order the edges were added.
Successors(c, from) ==
    LET es == SelectSeq(c.edges, LAMBDA e : e[1] = from)
    IN  [i \in 1..Len(es) |-> es[i][2]]

Predecessors(c, to) == {e[1] : e \in {x \in Range(c.edges) : x[2] = to}}

\* Graph.Edges as the map id -> successor list.
EdgeMap(c) ==
    [from \in {e[1] : e \in Range(c.edges)} |-> Successors(c, from)]

(***************************************************************************)
(* The authoring facade.                                                   *)
(***************************************************************************)
\* A Setup that does not advance the counter between the steps of a batch.
SetupSameSerial(cnt, k) ==
    [i \in 1..k |-> [Serial |-> cnt, Type |-> StepTypeDefault]]

\* A Setup that advances the counter before it numbers a step's predecessor.
SetupFromRoot(cnt, k) ==
    [i \in 1..k |-> [Serial |-> cnt + i - 2, Type |-> StepTypeDefault]]

\* Shipwright.Setup: each step of the batch receives the next serial.
Setup(cnt, k) ==
    [i \in 1..k |-> [Serial |-> cnt + i - 1, Type |-> StepTypeDefault]]

\* Shipwright.Run: one Append per step.
RECURSIVE RunStepsOneByOne(_, _)
RunStepsOneByOne(c, steps) ==
    IF steps = <<>> THEN c
    ELSE RunStepsOneByOne(AppendSteps(c, <<Head(steps)>>), Tail(steps))

\* A Run that hands the whole batch to one Append.
RunStepsOneBatch(c, steps) == AppendSteps(c, steps)

\* Shipwright.Run.
RunSteps(c, steps) == RunStepsOneByOne(c, steps)

\* A Parallel that appends its steps one by one.
ParallelStepsChained(c, steps) == RunStepsOneByOne(c, steps)

\* Shipwright.Parallel: one Append of the whole batch.
ParallelSteps(c, steps) == AppendSteps(c, steps)

\* Shipwright.Background marks every step before the one Append of the batch.
MarkBackground(steps) ==
    [i \in 1..Len(steps) |-> [steps[i] EXCEPT !.Type = StepTypeBackground]]

\* A Background that appends its steps without marking them.
BackgroundStepsUnmarked(c, steps) == AppendSteps(c, steps)

\* Shipwright.Background.
BackgroundSteps(c, steps) == AppendSteps(c, MarkBackground(steps))

\* The record of a call in the declaration history.
Logged(op, k) == Append(hist, [op |-> op, first |-> n, k |-> k])

Run(k) ==
    /\ n + k - 1 <= MaxSerial
    /\ Collection' = RunSteps(Collection, Setup(n, k))
    /\ n' = n + k
    /\ hist' = Logged("Run", k)
    /\ UNCHANGED <<runVars, wgVars, walkVars, doneVars, valVars, logVars>>

Parallel(k) ==
    /\ n + k - 1 <= MaxSerial
    /\ Collection' = ParallelSteps(Collection, Setup(n, k))
    /\ n' = n + k
    /\ hist' = Logged("Parallel", k)
    /\ UNCHANGED <<runVars, wgVars, walkVars, doneVars, valVars, logVars>>

Background(k) ==
    /\ n + k - 1 <= MaxSerial
    /\ Collection' = BackgroundSteps(Collection, Setup(n, k))
    /\ n' = n + k
    /\ hist' = Logged("Background", k)
    /\ UNCHANGED <<runVars, wgVars, walkVars, doneVars, valVars, logVars>>

\* A wait group nothing has been added to, and a walk that has not begun.
NoWaitGroup ==
    /\ now = 0
    /\ gs = <<>>
    /\ sendq = <<>>
    /\ doneClosed = FALSE
    /\ timerFired = FALSE
    /\ waitPC = "idle"
    /\ waitRet = "none"
    /\ waitErrOf = 0
    /\ ctxDone = FALSE
    /\ firstFailed = 0

\* The container backend, and no message logged.
NoValidation ==
    /\ client = "docker"
    /\ exited = FALSE
    /\ fatal = ""
    /\ warned = <<>>

\* The log wrapper's visitor has not been called.
NoWrap ==
    /\ frontier = <<>>
    /\ handed = <<>>
    /\ exec = <<>>
    /\ wrapPC = "idle"

\* Shipwright.Done has not been called.
NoRun ==
    /\ argStep = 0
    /\ status = "none"
    /\ orphans = {}

\* Client.Done has not been called.
NoDone ==
    /\ network = "none"
    /\ volume = "none"
    /\ container = "none"
    /\ donePC = "idle"
    /\ doneRet = "none"
    /\ pipelines = <<>>
    /\ pwalk = <<>>
    /\ pidx = 0
    /\ pjoin = "idle"
    /\ sublog = {}

NoWalk ==
    /\ delivered = <<>>
    /\ walkPC = "idle"
    /\ walkRet = "none"

Init ==
    /\ n = InitialSerial
    /\ Collection = EmptyCollection
    /\ hist = <<>>
    /\ timeout = 0
    /\ NoWaitGroup
    /\ NoWalk
    /\ NoDone
    /\ NoValidation
    /\ NoWrap
    /\ NoRun

Next ==
    \/ \E k \in 1..MaxBatch : Run(k)
    \/ \E k \in 1..MaxBatch : Parallel(k)
    \/ \E k \in 1..MaxBatch : Background(k)

Spec == Init /\ [][Next]_vars

(***************************************************************************)
(* plumbing.WaitGroup.  Time is a clock of ticks that starts when Wait     *)
(* creates its timer.  A function returns at a tick of its own choosing,   *)
(* no later than MaxDur; the clock does not advance while a goroutine, the *)
(* timer or the select can take a step at the current tick.                *)
(***************************************************************************)
Timeouts == 0..(MaxDur + 1)

\* A function handed to Add, and later the goroutine that runs it:
\* pc is "added", "running", "send" (blocked in errChan <- err) or "done"
\* (wg.Done() has been called); ret is what the function returned.
Func(id) == [id |-> id, pc |-> "added", ret |-> "none"]

Spawn(fs) == [i \in 1..Len(fs) |-> [fs[i] EXCEPT !.pc = "running"]]

\* WaitGroup.Add on a group that is not part of a walk.
Add ==
    /\ walkPC = "idle"
    /\ waitPC = "idle"
    /\ Len(gs) < MaxFuncs
    /\ gs' = Append(gs, Func(Len(gs) + 1))
    /\ UNCHANGED <<runVars, authVars, doneVars, valVars, logVars, walkVars, timeout, now, sendq, doneClosed, timerFired,
                   waitPC, waitRet, waitErrOf, ctxDone, firstFailed>>

\* Wait, up to its select: the timer is created, one goroutine is started
\* per function, and the goroutine that closes doneChan is started.
WaitStart ==
    /\ walkPC = "idle"
    /\ waitPC = "idle"
    /\ gs' = Spawn(gs)
    /\ now' = 0
    /\ waitPC' = "select"
    /\ UNCHANGED <<runVars, authVars, doneVars, valVars, logVars, walkVars, timeout, sendq, doneClosed, timerFired,
                   waitRet, waitErrOf, ctxDone, firstFailed>>

\* A function returns nil: its goroutine calls wg.Done().
FuncReturnNil(i) ==
    /\ gs[i].pc = "running"
    /\ gs' = [gs EXCEPT ![i].pc = "done", ![i].ret = "nil"]
    /\ UNCHANGED <<runVars, authVars, doneVars, valVars, logVars, walkVars, timeout, now, sendq, doneClosed, timerFired,
                   waitPC, waitRet, waitErrOf, ctxDone, firstFailed>>

\* A function returns an error: its goroutine blocks sending it on errChan.
FuncReturnErr(i) ==
    /\ gs[i].pc = "running"
    /\ gs' = [gs EXCEPT ![i].pc = "send", ![i].ret = "err"]
    /\ sendq' = Append(sendq, i)
    /\ firstFailed' = IF firstFailed = 0 THEN gs[i].id ELSE firstFailed
    /\ UNCHANGED <<runVars, authVars, doneVars, valVars, logVars, walkVars, timeout, now, doneClosed, timerFired,
                   waitPC, waitRet, waitErrOf, ctxDone>>

\* A closing goroutine that waits for one goroutine only.
CloseDoneReadyEarly == \E i \in 1..Len(gs) : gs[i].pc = "done"

\* The closing goroutine: wg.wg.Wait() returns once every goroutine has
\* called Done, and doneChan is closed.
CloseDoneReady == \A i \in 1..Len(gs) : gs[i].pc = "done"

CloseDone ==
    /\ waitPC # "idle"
    /\ ~doneClosed
    /\ CloseDoneReady
    /\ doneClosed' = TRUE
    /\ UNCHANGED <<runVars, authVars, doneVars, valVars, logVars, walkVars, timeout, now, gs, sendq, timerFired,
                   waitPC, waitRet, waitErrOf, ctxDone, firstFailed>>

\* The timer delivers on t.C once the timeout has elapsed.
TimerDue == waitPC # "idle" /\ ~timerFired /\ now >= timeout

TimerFire ==
    /\ TimerDue
    /\ timerFired' = TRUE
    /\ UNCHANGED <<runVars, authVars, doneVars, valVars, logVars, walkVars, timeout, now, gs, sendq, doneClosed,
                   waitPC, waitRet, waitErrOf, ctxDone, firstFailed>>

\* The select of Wait takes any case that is ready.
SelectDone ==
    /\ waitPC = "select"
    /\ doneClosed
    /\ waitPC' = "returned"
    /\ waitRet' = "nil"
    /\ UNCHANGED <<runVars, authVars, doneVars, valVars, logVars, walkVars, timeout, now, gs, sendq, doneClosed,
                   timerFired, waitErrOf, ctxDone, firstFailed>>

\* A receive that takes the sender blocked last.
ReceiverNewest(q) == Len(q)

\* The sender a receive from errChan takes: the one blocked longest.
Receiver(q) == 1

SelectErr ==
    /\ waitPC = "select"
    /\ sendq # <<>>
    /\ LET at == Receiver(sendq)
           i  == sendq[at]
       IN  /\ sendq' = SubSeq(sendq, 1, at - 1) \o SubSeq(sendq, at + 1, Len(sendq))
           /\ gs' = [gs EXCEPT ![i].pc = "done"]
           /\ waitErrOf' = gs[i].id
    /\ waitPC' = "returned"
    /\ waitRet' = "error"
    /\ UNCHANGED <<runVars, authVars, doneVars, valVars, logVars, walkVars, timeout, now, doneClosed, timerFired,
                   ctxDone, firstFailed>>

SelectTimeout ==
    /\ waitPC = "select"
    /\ timerFired
    /\ waitPC' = "returned"
    /\ waitRet' = "time out"
    /\ UNCHANGED <<runVars, authVars, doneVars, valVars, logVars, walkVars, timeout, now, gs, sendq, doneClosed,
                   timerFired, waitErrOf, ctxDone, firstFailed>>

SelectReady == waitPC = "select" /\ (doneClosed \/ sendq # <<>> \/ timerFired)

\* A clock tick.
Tick ==
    /\ waitPC # "idle"
    /\ now <= MaxDur
    /\ ~timerFired \/ \E i \in 1..Len(gs) : gs[i].pc = "running"
    /\ \A i \in 1..Len(gs) : gs[i].pc = "running" => now < MaxDur
    /\ ~TimerDue
    /\ ~(~doneClosed /\ CloseDoneReady)
    /\ ~SelectReady
    /\ now' = now + 1
    /\ UNCHANGED <<runVars, authVars, doneVars, valVars, logVars, walkVars, timeout, gs, sendq, doneClosed, timerFired,
                   waitPC, waitRet, waitErrOf, ctxDone, firstFailed>>

WaitGroupStep ==
    \/ \E i \in 1..Len(gs) : FuncReturnNil(i)
    \/ \E i \in 1..Len(gs) : FuncReturnErr(i)
    \/ CloseDone
    \/ TimerFire
    \/ SelectDone
    \/ SelectErr
    \/ SelectTimeout
    \/ Tick

\* NewWaitGroup(timeout), then Add and Wait.
InitWG ==
    /\ n = InitialSerial
    /\ Collection = EmptyCollection
    /\ hist = <<>>
    /\ timeout \in Timeouts
    /\ NoWaitGroup
    /\ NoWalk
    /\ NoDone
    /\ NoValidation
    /\ NoWrap
    /\ NoRun

NextWG ==
    \/ Add
    \/ WaitStart
    \/ WaitGroupStep

SpecWG == InitWG /\ [][NextWG]_vars

(***************************************************************************)
(* The walk of the default pipeline's step graph by the container backend: *)
(* the walker hands the step visitor one frontier at a time, and the       *)
(* visitor runs the frontier's steps in a wait group.                      *)
(***************************************************************************)
\* Graph.BreadthFirstSearch from the root: the layers below it, each in
\* insertion order, every node in the first layer that reaches it.
RECURSIVE Layers(_, _, _)
Layers(c, visited, cur) ==
    LET next == SelectSeq(Serials(c.nodes),
                          LAMBDA x : x \notin visited
                                     /\ Predecessors(c, x) \cap Range(cur) # {})
    IN  IF next = <<>> THEN <<>>
        ELSE <<next>> \o Layers(c, visited \cup Range(next), next)

Frontiers(c) == Layers(c, {RootSerial}, <<RootSerial>>)

\* The walker delivers the next frontier when the visitor returned nil for
\* the one before.
VisitorReturnedNil == waitPC = "idle" \/ (waitPC = "returned" /\ waitRet = "nil")

CanVisit ==
    /\ walkPC = "walking"
    /\ VisitorReturnedNil
    /\ Len(delivered) < Len(Frontiers(Collection))

\* Client.stepWalkFunc with every container created: one function per step
\* is added to a new wait group, and Wait starts them.
StepTasks(steps) == [i \in 1..Len(steps) |-> Func(steps[i])]

StepWalk ==
    /\ CanVisit
    /\ LET steps == Frontiers(Collection)[Len(delivered) + 1]
       IN  /\ delivered' = Append(delivered, steps)
           /\ gs' = Spawn(StepTasks(steps))
    /\ now' = 0
    /\ sendq' = <<>>
    /\ doneClosed' = FALSE
    /\ timerFired' = FALSE
    /\ waitPC' = "select"
    /\ waitRet' = "none"
    /\ waitErrOf' = 0
    /\ firstFailed' = 0
    /\ UNCHANGED <<runVars, authVars, doneVars, valVars, logVars, timeout, ctxDone, walkPC, walkRet>>

\* Client.stepWalkFunc when CreateStepContainer fails: the visitor returns
\* the error before any step is started, and the walk ends with it.
StepWalkCreateFails ==
    /\ CanVisit
    /\ delivered' = Append(delivered, Frontiers(Collection)[Len(delivered) + 1])
    /\ walkPC' = "returned"
    /\ walkRet' = "create"
    /\ UNCHANGED <<runVars, authVars, doneVars, valVars, logVars, wgVars>>

\* A visitor that drops Wait's error and returns nil to the walker.
WalkAbortIgnored ==
    /\ walkPC = "walking"
    /\ waitPC = "returned"
    /\ waitRet # "nil"
    /\ waitRet' = "nil"
    /\ UNCHANGED <<runVars, authVars, doneVars, valVars, logVars, walkVars, timeout, now, gs, sendq, doneClosed,
                   timerFired, waitPC, waitErrOf, ctxDone, firstFailed>>

\* The visitor returned Wait's error: WalkSteps returns it.
WalkAbort ==
    /\ walkPC = "walking"
    /\ waitPC = "returned"
    /\ waitRet # "nil"
    /\ walkPC' = "returned"
    /\ walkRet' = waitRet
    /\ UNCHANGED <<runVars, authVars, doneVars, valVars, logVars, wgVars, delivered>>

\* Every frontier has been visited: WalkSteps returns nil.
WalkFinish ==
    /\ walkPC = "walking"
    /\ VisitorReturnedNil
    /\ Len(delivered) = Len(Frontiers(Collection))
    /\ walkPC' = "returned"
    /\ walkRet' = "nil"
    /\ UNCHANGED <<runVars, authVars, doneVars, valVars, logVars, wgVars, delivered>>

\* The pipelines that are executed: the declaration sequences of the
\* repository's tests and of the end-to-end scenarios, and two fan-outs in a
\* row.
Call(op, k) == [op |-> op, k |-> k]

Scenario1 == << Call("Run", 1), Call("Parallel", 3), Call("Run", 1) >>

Scenario2 ==
    << Call("Background", 1), Call("Run", 1), Call("Parallel", 3), Call("Run", 1),
       Call("Background", 1) >>

Pipelines ==
    { Scenario1,
      Scenario2,
      << Call("Run", 4) >>,
      << Call("Run", 2), Call("Run", 1), Call("Run", 2) >>,
      << Call("Run", 1), Call("Run", 1) >>,
      << Call("Parallel", 3) >>,
      << Call("Parallel", 2), Call("Background", 1), Call("Parallel", 2) >> }

Declare(op, c, steps) ==
    CASE op = "Run"        -> RunSteps(c, steps)
      [] op = "Parallel"   -> ParallelSteps(c, steps)
      [] op = "Background" -> BackgroundSteps(c, steps)

\* The client after the calls of prog, starting from the client st.
RECURSIVE Replay(_, _)
Replay(prog, st) ==
    IF prog = <<>> THEN st
    ELSE LET call == Head(prog)
         IN  Replay(Tail(prog),
                    [n    |-> st.n + call.k,
                     c    |-> Declare(call.op, st.c, Setup(st.n, call.k)),
                     hist |-> Append(st.hist, [op |-> call.op, first |-> st.n, k |-> call.k])])

FreshClient == [n |-> InitialSerial, c |-> EmptyCollection, hist |-> <<>>]

InitExec ==
    /\ \E prog \in Pipelines :
           LET st == Replay(prog, FreshClient)
           IN  /\ n = st.n
               /\ Collection = st.c
               /\ hist = st.hist
    /\ timeout \in Timeouts
    /\ NoWaitGroup
    /\ delivered = <<>>
    /\ walkPC = "walking"
    /\ walkRet = "none"
    /\ NoDone
    /\ NoValidation
    /\ NoWrap
    /\ NoRun

NextExec ==
    \/ StepWalk
    \/ StepWalkCreateFails
    \/ WalkAbort
    \/ WalkFinish
    \/ WaitGroupStep

SpecExec == InitExec /\ [][NextExec]_vars

(***************************************************************************)
(* Client.Done of the container backend: the network, the compilation of   *)
(* the pipeline into a volume, and the walk of the pipeline graph, one     *)
(* pipeline frontier at a time.  The walk of one pipeline's step graph     *)
(* (runPipeline) is a task that returns nil or an error.                   *)
(***************************************************************************)
PipelineTypes == {StepTypeDefault, StepTypeSubPipeline}

\* The pipeline frontiers of a graph of N pipelines with the types t, a new
\* frontier starting after each pipeline in cuts.
PipelineFrontiers(N, t, cuts) ==
    LET ps       == [i \in 1..N |-> [Serial |-> i, Type |-> t[i]]]
        layer(i) == 1 + Cardinality({c \in cuts : c < i})
    IN  [f \in 1..(1 + Cardinality(cuts)) |->
            SelectSeq(ps, LAMBDA q : layer(q.Serial) = f)]

PipelineGraphs ==
    { PipelineFrontiers(N, t, cuts) :
        <<N, t, cuts>> \in
            UNION { {N} \X [1..N -> PipelineTypes] \X SUBSET (1..(N - 1)) :
                    N \in 1..MaxPipelines }
    }

\* A visitor that takes no pipeline for a sub-pipeline.
IsSubNever(q) == FALSE

IsSub(q) == q.Type = StepTypeSubPipeline

\* The pipelines of the frontier the visitor was last called with.
CurrentPipelines == IF pidx = 0 THEN <<>> ELSE pipelines[pidx]

\* A visitor that adds every pipeline of the frontier to the wait group.
JoinedAll == {q.Serial : q \in Range(CurrentPipelines)}

\* The entries of the pipeline wait group of that call.
Joined == {q.Serial : q \in {q \in Range(CurrentPipelines) : ~IsSub(q)}}

\* Done: docker.CreateNetwork.  Its error is assigned and never looked at.
CreateNetwork ==
    /\ donePC = "network"
    /\ network' \in {"created", "failed"}
    /\ donePC' = "volume"
    /\ UNCHANGED <<runVars, authVars, valVars, logVars, wgVars, walkVars, volume, container, doneRet,
                   pipelines, pwalk, pidx, pjoin, sublog>>

\* compilePipeline: docker.CreateVolume.
CreateVolume ==
    /\ donePC = "volume"
    /\ \/ /\ volume' = "created"
          /\ donePC' = "container"
          /\ UNCHANGED doneRet
       \/ /\ donePC' = "returned"
          /\ doneRet' = "compile"
          /\ UNCHANGED volume
    /\ UNCHANGED <<runVars, authVars, valVars, logVars, wgVars, walkVars, network, container, pipelines,
                   pwalk, pidx, pjoin, sublog>>

\* compilePipeline: DefaultMounts, os.Getwd and docker.CreateContainer.
CreateContainer ==
    /\ donePC = "container"
    /\ \/ /\ container' = "created"
          /\ donePC' = "build"
          /\ UNCHANGED doneRet
       \/ /\ donePC' = "returned"
          /\ doneRet' = "compile"
          /\ UNCHANGED container
    /\ UNCHANGED <<runVars, authVars, valVars, logVars, wgVars, walkVars, network, volume, pipelines,
                   pwalk, pidx, pjoin, sublog>>

\* compilePipeline: docker.RunContainer of the compile container; when it
\* succeeds Done goes on to Walk.
RunContainer ==
    /\ donePC = "build"
    /\ container' = "ran"
    /\ \/ /\ donePC' = "walk"
          /\ UNCHANGED doneRet
       \/ /\ donePC' = "returned"
          /\ doneRet' = "compile"
    /\ UNCHANGED <<runVars, authVars, valVars, logVars, wgVars, walkVars, network, volume, pipelines,
                   pwalk, pidx, pjoin, sublog>>

\* The walker delivers the next pipeline frontier when the visitor returned
\* nil for the one before.
PipelineVisitorReturnedNil == pjoin \in {"idle", "nil"}

\* The goroutines a call of the visitor starts: one per sub-pipeline, and one
\* per entry of the pipeline wait group when Wait is called.
StartPipelines(w, ps) ==
    [i \in 1..Len(w) |-> IF i \in {q.Serial : q \in Range(ps)} THEN "running" ELSE w[i]]

\* walkPipelines: the visitor is called with a frontier; it starts a detached
\* goroutine for every sub-pipeline, adds every other pipeline to a new
\* pipeline wait group and calls Wait.
WalkPipelines ==
    /\ donePC = "walk"
    /\ PipelineVisitorReturnedNil
    /\ pidx < Len(pipelines)
    /\ pidx' = pidx + 1
    /\ pwalk' = StartPipelines(pwalk, pipelines[pidx + 1])
    /\ pjoin' = "waiting"
    /\ UNCHANGED <<runVars, authVars, valVars, logVars, wgVars, walkVars, network, volume, container,
                   donePC, doneRet, pipelines, sublog>>

\* runPipeline returns for pipeline i.  The goroutine of a sub-pipeline logs
\* the error; the pipeline wait group receives the others'.
Logs(q, err) == IF IsSub(q) /\ err # "nil" THEN {q.Serial} ELSE {}

PipelineOf(i) == CHOOSE q \in Range(Flatten(pipelines)) : q.Serial = i

RunPipelineReturns(i) ==
    /\ pwalk[i] = "running"
    /\ \E err \in {"nil", "error"} :
          /\ pwalk' = [pwalk EXCEPT ![i] = err]
          /\ sublog' = sublog \cup Logs(PipelineOf(i), err)
    /\ UNCHANGED <<runVars, authVars, valVars, logVars, wgVars, walkVars, network, volume, container,
                   donePC, doneRet, pipelines, pidx, pjoin>>

\* PipelineWaitGroup.Wait returns nil: every entry returned nil.
PipelineWaitNil ==
    /\ pjoin = "waiting"
    /\ \A i \in Joined : pwalk[i] = "nil"
    /\ pjoin' = "nil"
    /\ UNCHANGED <<runVars, authVars, valVars, logVars, wgVars, walkVars, network, volume, container,
                   donePC, doneRet, pipelines, pwalk, pidx, sublog>>

\* PipelineWaitGroup.Wait returns the error of an entry.
PipelineWaitErr ==
    /\ pjoin = "waiting"
    /\ \E i \in Joined : pwalk[i] = "error"
    /\ pjoin' = "error"
    /\ UNCHANGED <<runVars, authVars, valVars, logVars, wgVars, walkVars, network, volume, container,
                   donePC, doneRet, pipelines, pwalk, pidx, sublog>>

\* The visitor returned an error: WalkPipelines, Walk and Done return it.
DoneAbort ==
    /\ donePC = "walk"
    /\ pjoin = "error"
    /\ donePC' = "returned"
    /\ doneRet' = "error"
    /\ UNCHANGED <<runVars, authVars, valVars, logVars, wgVars, walkVars, network, volume, container,
                   pipelines, pwalk, pidx, pjoin, sublog>>

\* Every pipeline frontier has been visited: Done returns nil.
DoneFinish ==
    /\ donePC = "walk"
    /\ PipelineVisitorReturnedNil
    /\ pidx = Len(pipelines)
    /\ donePC' = "returned"
    /\ doneRet' = "nil"
    /\ UNCHANGED <<runVars, authVars, valVars, logVars, wgVars, walkVars, network, volume, container,
                   pipelines, pwalk, pidx, pjoin, sublog>>

InitDone ==
    /\ n = InitialSerial
    /\ Collection = EmptyCollection
    /\ hist = <<>>
    /\ timeout = 0
    /\ NoWaitGroup
    /\ NoWalk
    /\ network = "none"
    /\ volume = "none"
    /\ container = "none"
    /\ donePC = "network"
    /\ doneRet = "none"
    /\ pipelines \in PipelineGraphs
    /\ pwalk = [i \in 1..Len(Flatten(pipelines)) |-> "pending"]
    /\ pidx = 0
    /\ pjoin = "idle"
    /\ sublog = {}
    /\ NoValidation
    /\ NoWrap
    /\ NoRun

NextDone ==
    \/ CreateNetwork
    \/ CreateVolume
    \/ CreateContainer
    \/ RunContainer
    \/ WalkPipelines
    \/ \E i \in 1..Len(pwalk) : RunPipelineReturns(i)
    \/ PipelineWaitNil
    \/ PipelineWaitErr
    \/ DoneAbort
    \/ DoneFinish

SpecDone == InitDone /\ [][NextDone]_vars

(***************************************************************************)
(* The authoring facade with the steps' names and images, and the          *)
(* validation of every batch by the backend before it is appended.  An     *)
(* error is its message; "" is nil.                                        *)
(***************************************************************************)
\* Shipwright.Version, and the image plumbing.DefaultImage derives from it.
Version == "v1"
DefaultImage(version) == "shipwright:" \o version

\* The answer of plumbing.ErrorSkipValidation, and of a backend that objects.
ErrorSkipValidation == "skip validation"
ErrorInvalid == "invalid step"

\* The steps a pipeline author hands to Run, Parallel or Background.
StepInputs ==
    { [Name |-> "", Image |-> ""],
      [Name |-> "build", Image |-> ""],
      [Name |-> "build", Image |-> "alpine"] }

\* What a backend's Validate may answer for the steps of a batch of k steps:
\* the container backend decides by the image alone.
Answers(cl, k) ==
    IF cl = "docker" THEN {[i \in 1..k |-> ""]}
    ELSE [1..k -> {"", ErrorSkipValidation, ErrorInvalid}]

\* A Setup that leaves an empty image empty.
WithImageKept(step) == step.Image

\* Shipwright.Setup: a step without an image gets the default image.
WithImage(step) ==
    IF step.Image = "" THEN DefaultImage(Version) ELSE step.Image

\* Shipwright.Setup on the steps of a call.
SetupSteps(cnt, batch) ==
    LET numbered == Setup(cnt, Len(batch))
    IN  [i \in 1..Len(batch) |->
            [Serial |-> numbered[i].Serial,
             Type   |-> numbered[i].Type,
             Name   |-> batch[i].Name,
             Image  |-> WithImage(batch[i])]]

\* docker Client.Validate.
DockerValidate(step) ==
    IF step.Image = "" THEN "no image provided" ELSE ""

\* s.Client.Validate(v) for the backend cl; says is the answer of a backend
\* that is not the container backend.
Validate(cl, step, says) ==
    IF cl = "docker" THEN DockerValidate(step) ELSE says

formatError(step, err) ==
    LET name == IF step.Name = ""
                THEN "unnamed-step-" \o ToString(step.Serial)
                ELSE step.Name
    IN  "[name: " \o name \o ", id: " \o ToString(step.Serial) \o "] " \o err

\* A validateSteps that returns the first error of any kind.
RECURSIVE validateStepsStrict(_, _, _, _)
validateStepsStrict(cl, steps, says, warns) ==
    IF steps = <<>> THEN [err |-> "", warned |-> warns]
    ELSE LET v   == Head(steps)
             err == Validate(cl, v, Head(says))
         IN  IF err = ""
             THEN validateStepsStrict(cl, Tail(steps), Tail(says), warns)
             ELSE [err |-> formatError(v, err), warned |-> warns]

\* Shipwright.validateSteps: the error it returns and the warnings it logs.
RECURSIVE validateSteps(_, _, _, _)
validateSteps(cl, steps, says, warns) ==
    IF steps = <<>> THEN [err |-> "", warned |-> warns]
    ELSE LET v   == Head(steps)
             err == Validate(cl, v, Head(says))
         IN  IF err = ""
             THEN validateSteps(cl, Tail(steps), Tail(says), warns)
             ELSE IF err = ErrorSkipValidation
             THEN validateSteps(cl, Tail(steps), Tail(says),
                                Append(warns, formatError(v, err)))
             ELSE [err |-> formatError(v, err), warned |-> warns]

\* The batches of k steps, with the backend's answers.
Batches(k) == [1..k -> StepInputs]

\* The record of a validated call in the declaration history.
Declared(op, batch, says) ==
    Append(hist, [op |-> op, first |-> n, k |-> Len(batch),
                  steps |-> batch, says |-> says])

\* A Run that validates each step right before it appends it.
RunValidatedStepwise(batch, says) ==
    /\ ~exited
    /\ n + Len(batch) - 1 <= MaxDeclared
    /\ LET steps == SetupSteps(n, batch)
           v     == validateSteps(client, steps, says, <<>>)
           bad   == {j \in 1..Len(steps) :
                       Validate(client, steps[j], says[j])
                           \notin {"", ErrorSkipValidation}}
           good  == SelectSeq(steps, LAMBDA st : \A j \in bad : st.Serial < steps[j].Serial)
       IN  /\ warned' = warned \o v.warned
           /\ fatal' = v.err
           /\ exited' = (v.err # "")
           /\ Collection' = RunSteps(Collection, good)
    /\ n' = n + Len(batch)
    /\ hist' = Declared("Run", batch, says)
    /\ UNCHANGED <<runVars, wgVars, walkVars, doneVars, logVars, client>>

\* Shipwright.Run.
RunValidated(batch, says) ==
    /\ ~exited
    /\ n + Len(batch) - 1 <= MaxDeclared
    /\ LET steps == SetupSteps(n, batch)
           v     == validateSteps(client, steps, says, <<>>)
       IN  /\ warned' = warned \o v.warned
           /\ fatal' = v.err
           /\ exited' = (v.err # "")
           /\ Collection' = IF v.err # "" THEN Collection
                            ELSE RunSteps(Collection, steps)
    /\ n' = n + Len(batch)
    /\ hist' = Declared("Run", batch, says)
    /\ UNCHANGED <<runVars, wgVars, walkVars, doneVars, logVars, client>>

\* Shipwright.Parallel.
ParallelValidated(batch, says) ==
    /\ ~exited
    /\ n + Len(batch) - 1 <= MaxDeclared
    /\ LET steps == SetupSteps(n, batch)
           v     == validateSteps(client, steps, says, <<>>)
       IN  /\ warned' = warned \o v.warned
           /\ fatal' = v.err
           /\ exited' = (v.err # "")
           /\ Collection' = IF v.err # "" THEN Collection
                            ELSE ParallelSteps(Collection, steps)
    /\ n' = n + Len(batch)
    /\ hist' = Declared("Parallel", batch, says)
    /\ UNCHANGED <<runVars, wgVars, walkVars, doneVars, logVars, client>>

\* Shipwright.Background.
BackgroundValidated(batch, says) ==
    /\ ~exited
    /\ n + Len(batch) - 1 <= MaxDeclared
    /\ LET steps == SetupSteps(n, batch)
           v     == validateSteps(client, steps, says, <<>>)
       IN  /\ warned' = warned \o v.warned
           /\ fatal' = v.err
           /\ exited' = (v.err # "")
           /\ Collection' = IF v.err # "" THEN Collection
                            ELSE BackgroundSteps(Collection, steps)
    /\ n' = n + Len(batch)
    /\ hist' = Declared("Background", batch, says)
    /\ UNCHANGED <<runVars, wgVars, walkVars, doneVars, logVars, client>>

InitValidate ==
    /\ n = InitialSerial
    /\ Collection = EmptyCollection
    /\ hist = <<>>
    /\ timeout = 0
    /\ NoWaitGroup
    /\ NoWalk
    /\ NoDone
    /\ client \in {"docker", "custom"}
    /\ exited = FALSE
    /\ fatal = ""
    /\ warned = <<>>
    /\ NoWrap
    /\ NoRun

\* The sizes of the batches that can still be declared.
BatchSizes ==
    {k \in 1..MaxBatch : ~exited /\ n + k - 1 <= MaxDeclared}

NextValidate ==
    \/ \E k \in BatchSizes : \E batch \in Batches(k) :
         \E says \in Answers(client, k) : RunValidated(batch, says)
    \/ \E k \in BatchSizes : \E batch \in Batches(k) :
         \E says \in Answers(client, k) : ParallelValidated(batch, says)
    \/ \E k \in BatchSizes : \E batch \in Batches(k) :
         \E says \in Answers(client, k) : BackgroundValidated(batch, says)

SpecValidate == InitValidate /\ [][NextValidate]_vars

(***************************************************************************)
(* LogWrapper: Wrap's visitor replaces the Content of every step that has  *)
(* one by a function that logs around it, and hands the steps to the inner *)
(* visitor.  The inner visitor calls the Content of a step at most once.   *)
(* Each of the two log writers given to an action is a pipe read by a      *)
(* goroutine of its own, which logs a line before it reads the next: a     *)
(* write returns when the line has been read, maybe before it is logged.   *)
(***************************************************************************)
MsgStarting == "starting step'"
MsgError == "encountered error"
MsgDone == "done running step without error"
MsgLine == "line"

Streams == {"stdout", "stderr"}

\* A log entry of a step: a message of the wrapper, or a line of a stream.
Entry(msg, stream) == [msg |-> msg, stream |-> stream]

\* The frontiers of k steps: a step has an action ("action") or none ("nil").
FrontiersOf(k) ==
    { [i \in 1..k |-> [Serial |-> i, Image |-> "alpine", Content |-> cs[i]]] :
        cs \in [1..k -> {"nil", "action"}] }

\* A WrapStep that replaces the Content of every step.
WrapStepEvery(steps) ==
    [i \in 1..Len(steps) |-> [steps[i] EXCEPT !.Content = "wrapper"]]

\* LogWrapper.WrapStep.
WrapStep(steps) ==
    [i \in 1..Len(steps) |->
        IF steps[i].Content = "nil" THEN steps[i]
        ELSE [steps[i] EXCEPT !.Content = "wrapper"]]

\* The execution of a step's Content: pc is "idle", "running" (the action
\* has been called), "returned" (the action has returned ret) or "finished"
\* (the Content has returned wret); written counts the lines the action
\* wrote, pipe holds the streams whose last line is not yet logged, log the
\* step's entries.
NotRun ==
    [pc |-> "idle", ret |-> "none", wret |-> "none", written |-> 0,
     pipe |-> {}, log |-> <<>>]

\* LogWrapper.Wrap: the visitor wraps the steps and calls the inner visitor.
Wrap ==
    /\ wrapPC = "called"
    /\ handed' = WrapStep(frontier)
    /\ wrapPC' = "visiting"
    /\ UNCHANGED <<runVars, authVars, wgVars, walkVars, doneVars, valVars, frontier, exec>>

\* The inner visitor runs a step that has no Content: nothing is called.
RunImage(i) ==
    /\ wrapPC = "visiting"
    /\ handed[i].Content = "nil"
    /\ exec[i].pc = "idle"
    /\ exec' = [exec EXCEPT ![i].pc = "finished"]
    /\ UNCHANGED <<runVars, authVars, wgVars, walkVars, doneVars, valVars, frontier, handed,
                   wrapPC>>

\* The inner visitor calls the Content of step i: the wrapper logs that the
\* step starts, sets the log writers and calls the action.
CallContent(i) ==
    /\ wrapPC = "visiting"
    /\ handed[i].Content = "wrapper"
    /\ exec[i].pc = "idle"
    /\ exec' = [exec EXCEPT ![i].pc = "running",
                            ![i].log = Append(@, Entry(MsgStarting, ""))]
    /\ UNCHANGED <<runVars, authVars, wgVars, walkVars, doneVars, valVars, frontier, handed,
                   wrapPC>>

\* The action writes a line to opts.Stdout or opts.Stderr.
ActionWrites(i, stream) ==
    /\ exec[i].pc = "running"
    /\ exec[i].written < MaxLines
    /\ stream \notin exec[i].pipe
    /\ exec' = [exec EXCEPT ![i].written = @ + 1,
                            ![i].pipe = @ \cup {stream}]
    /\ UNCHANGED <<runVars, authVars, wgVars, walkVars, doneVars, valVars, frontier, handed,
                   wrapPC>>

\* The goroutine of a log writer logs the line it has read.
WriterLogs(i, stream) ==
    /\ stream \in exec[i].pipe
    /\ exec' = [exec EXCEPT ![i].pipe = @ \ {stream},
                            ![i].log = Append(@, Entry(MsgLine, stream))]
    /\ UNCHANGED <<runVars, authVars, wgVars, walkVars, doneVars, valVars, frontier, handed,
                   wrapPC>>

\* The action returns nil or an error.
ActionReturns(i, err) ==
    /\ exec[i].pc = "running"
    /\ exec' = [exec EXCEPT ![i].pc = "returned", ![i].ret = err]
    /\ UNCHANGED <<runVars, authVars, wgVars, walkVars, doneVars, valVars, frontier, handed,
                   wrapPC>>

\* A wrapper that reports every return of the action as a success.
OutcomeAlwaysDone(err) == MsgDone

\* The entry the wrapper logs for what the action returned.
Outcome(err) == IF err # "nil" THEN MsgError ELSE MsgDone

\* The wrapper logs the outcome and returns what the action returned.
ContentReturns(i) ==
    /\ exec[i].pc = "returned"
    /\ exec' = [exec EXCEPT ![i].pc = "finished",
                            ![i].wret = exec[i].ret,
                            ![i].log = Append(@, Entry(Outcome(exec[i].ret), ""))]
    /\ UNCHANGED <<runVars, authVars, wgVars, walkVars, doneVars, valVars, frontier, handed,
                   wrapPC>>

\* The inner visitor returns, and Wrap's visitor with it.
VisitorReturns ==
    /\ wrapPC = "visiting"
    /\ \A i \in 1..Len(exec) : exec[i].pc \in {"idle", "finished"}
    /\ wrapPC' = "returned"
    /\ UNCHANGED <<runVars, authVars, wgVars, walkVars, doneVars, valVars, frontier, handed,
                   exec>>

InitLog ==
    /\ n = InitialSerial
    /\ Collection = EmptyCollection
    /\ hist = <<>>
    /\ timeout = 0
    /\ NoWaitGroup
    /\ NoWalk
    /\ NoDone
    /\ NoValidation
    /\ \E k \in 1..MaxWrapped : frontier \in FrontiersOf(k)
    /\ handed = <<>>
    /\ exec = [i \in 1..Len(frontier) |-> NotRun]
    /\ wrapPC = "called"
    /\ NoRun

NextLog ==
    \/ Wrap
    \/ \E i \in 1..Len(handed) : RunImage(i)
    \/ \E i \in 1..Len(handed) : CallContent(i)
    \/ \E i \in 1..Len(exec) : \E stream \in Streams : ActionWrites(i, stream)
    \/ \E i \in 1..Len(exec) : \E stream \in Streams : WriterLogs(i, stream)
    \/ \E i \in 1..Len(exec) : \E err \in {"nil", "failed"} : ActionReturns(i, err)
    \/ \E i \in 1..Len(exec) : ContentReturns(i)
    \/ VisitorReturns

SpecLog == InitLog /\ [][NextLog]_vars

(***************************************************************************)
(* Shipwright.Done: the -step option cuts the collection down to one step, *)
(* the backend walks the collection it is handed, and a goroutine that     *)
(* waits for an OS signal ends the process.  From the call of the backend  *)
(* on, Collection stands for Done's local collection, the one handed over. *)
(***************************************************************************)
\* Collection.BySerial: the step exists.
BySerial(c, x) == x \in Range(Serials(c.nodes))

\* Collection.Sub: a copy of the collection that holds the given step only.
Sub(c, x) ==
    [nodes  |-> SelectSeq(c.nodes, LAMBDA st : st.Serial = x),
     edges  |-> << <<RootSerial, x>> >>,
     attach |-> <<x>>]

\* A Done that hands the whole collection to the backend whatever -step says.
DoneUncut ==
    /\ status = "none"
    /\ IF argStep # 0 /\ ~BySerial(Collection, argStep)
       THEN /\ status' = "panic"
            /\ UNCHANGED <<Collection, walkPC>>
       ELSE /\ status' = "started"
            /\ walkPC' = "walking"
            /\ UNCHANGED Collection
    /\ UNCHANGED <<n, hist, wgVars, doneVars, valVars, logVars, delivered, walkRet,
                   argStep, orphans>>

\* Shipwright.Done up to the call of the backend: the signal goroutine is
\* started, and with -step the collection is cut down to the step, or Done
\* panics when there is no such step.
Done ==
    /\ status = "none"
    /\ IF argStep = 0
       THEN /\ status' = "started"
            /\ walkPC' = "walking"
            /\ UNCHANGED Collection
       ELSE IF BySerial(Collection, argStep)
       THEN /\ Collection' = Sub(Collection, argStep)
            /\ status' = "started"
            /\ walkPC' = "walking"
       ELSE /\ status' = "panic"
            /\ UNCHANGED <<Collection, walkPC>>
    /\ UNCHANGED <<n, hist, wgVars, doneVars, valVars, logVars, delivered, walkRet,
                   argStep, orphans>>

\* The backend has returned: Done logs the status of the execution.
DoneReturns ==
    /\ status = "started"
    /\ walkPC = "returned"
    /\ status' = IF walkRet = "nil" THEN "success" ELSE "error"
    /\ UNCHANGED <<authVars, wgVars, walkVars, doneVars, valVars, logVars, argStep,
                   orphans>>

\* The steps whose containers are running.
InFlight == {gs[i].id : i \in {j \in 1..Len(gs) : gs[j].pc = "running"}}

\* The signal goroutine: watchSignals returns, the status "cancelled" is
\* logged and os.Exit(1) ends the process with all its goroutines; the
\* containers that were running are left to the container runtime.
Signal ==
    /\ status = "started"
    /\ status' = "cancelled"
    /\ orphans' = InFlight
    /\ walkPC' = "exited"
    /\ waitPC' = "idle"
    /\ gs' = <<>>
    /\ sendq' = <<>>
    /\ UNCHANGED <<authVars, doneVars, valVars, logVars, timeout, now, doneClosed,
                   timerFired, waitRet, waitErrOf, ctxDone, firstFailed, delivered,
                   walkRet, argStep>>

InitRun ==
    /\ \E prog \in Pipelines :
           LET st == Replay(prog, FreshClient)
           IN  /\ n = st.n
               /\ Collection = st.c
               /\ hist = st.hist
    /\ timeout \in Timeouts
    /\ NoWaitGroup
    /\ NoWalk
    /\ NoDone
    /\ NoValidation
    /\ NoWrap
    /\ argStep \in 0..n
    /\ status = "none"
    /\ orphans = {}

NextRun ==
    \/ Done
    \/ StepWalk
    \/ StepWalkCreateFails
    \/ WalkAbort
    \/ WalkFinish
    \/ WaitGroupStep
    \/ DoneReturns
    \/ Signal

SpecRun == InitRun /\ [][NextRun]_vars

(***************************************************************************)
(* Properties of the declarations.                                         *)
(***************************************************************************)
\* The calls made so far, without the serials they assigned.
Calls == [i \in 1..Len(hist) |-> [op |-> hist[i].op, k |-> hist[i].k]]

\* The chain root -> ids[1] -> ids[2] -> ... as an edge list.
Chain(ids) ==
    [i \in 1..Len(ids) |-> <<IF i = 1 THEN RootSerial ELSE ids[i - 1], ids[i]>>]

\* The serials a call assigned.
NewSerials(call) == {call.first + i - 1 : i \in 1..call.k}

\* The step that has just been taken is a call of op.
Called(op) ==
    /\ Len(hist') = Len(hist) + 1
    /\ hist'[Len(hist')].op = op

\* C1: a single Run(s1..sk) on a fresh client yields exactly the chain
\* root->s1->...->sk: every step has exactly one predecessor and no two steps
\* share a predecessor.
C1_SingleRunIsChain ==
    (Len(hist) = 1 /\ hist[1].op = "Run") =>
        LET ids == Serials(Collection.nodes)
        IN  /\ Len(ids) = hist[1].k
            /\ Len(Collection.edges) = Len(ids)
            /\ Range(Collection.edges) = Range(Chain(ids))
            /\ \A s \in Range(ids) : Cardinality(Predecessors(Collection, s)) = 1
            /\ \A s, t \in Range(ids) :
                   s # t => Predecessors(Collection, s) \cap Predecessors(Collection, t) = {}

C1_Witness ==
    /\ Len(hist) = 1
    /\ hist[1].op = "Run"
    /\ hist[1].k = MaxBatch
    /\ Len(Collection.edges) = MaxBatch

\* C2: however a list of steps is split into consecutive Run calls, the graph
\* is the one chain through the steps in declaration order; it is a function
\* of the number of steps declared alone.
C2_RunSplitsAgree ==
    (\A i \in 1..Len(hist) : hist[i].op = "Run") =>
        /\ Collection.edges =
               Chain([i \in 1..(n - InitialSerial) |-> InitialSerial + i - 1])
        /\ Serials(Collection.nodes) =
               [i \in 1..(n - InitialSerial) |-> InitialSerial + i - 1]

C2_Witness ==
    /\ Calls = << [op |-> "Run", k |-> 2], [op |-> "Run", k |-> 1], [op |-> "Run", k |-> 2] >>
    /\ Collection.edges = << <<0, 1>>, <<1, 2>>, <<2, 3>>, <<3, 4>>, <<4, 5>> >>

\* What a Parallel call does to the graph, as a relation between the state
\* before and the state after.
C3_ParallelStep ==
    Called("Parallel") =>
        LET new   == NewSerials(hist'[Len(hist')])
            L     == Range(Collection.attach)
            old   == Len(Collection.edges)
            added == {Collection'.edges[i] : i \in (old + 1)..Len(Collection'.edges)}
        IN  /\ SubSeq(Collection'.edges, 1, old) = Collection.edges
            /\ added = L \X new
            /\ Len(Collection'.edges) = old + Cardinality(L) * Cardinality(new)
            /\ Range(Collection'.attach) = new
            /\ Len(Collection'.attach) = Cardinality(new)

C4_BackgroundStep ==
    Called("Background") =>
        LET call == hist'[Len(hist')]
        IN  /\ Collection'.edges =
                   Collection.edges \o [i \in 1..call.k |-> <<RootSerial, call.first + i - 1>>]
            /\ Collection'.nodes =
                   Collection.nodes \o
                       [i \in 1..call.k |->
                           [Serial |-> call.first + i - 1, Type |-> StepTypeBackground]]
            /\ Collection'.attach = Collection.attach

\* What a Run or Parallel call attaches to: the attachment set, and never a
\* background step.
C4_AttachStep ==
    (Called("Run") \/ Called("Parallel")) =>
        /\ Predecessors(Collection', hist'[Len(hist')].first) = Range(Collection.attach)
        /\ \A i \in 1..Len(Collection'.nodes) :
               Collection'.nodes[i].Type = StepTypeBackground =>
                   Successors(Collection', Collection'.nodes[i].Serial) = <<>>

\* C4: Background(x) adds only the edge root->x, marks x Background and leaves
\* the attachment set as it was; a later Run or Parallel attaches to that set
\* and never to x.
C4_BackgroundIsDetached == [][C4_BackgroundStep /\ C4_AttachStep]_vars

C4_Witness ==
    \E i \in 2..(Len(hist) - 1) :
        /\ hist[i - 1].op = "Parallel" /\ hist[i - 1].k = 2
        /\ hist[i].op = "Background"
        /\ hist[i + 1].op \in {"Run", "Parallel"}
        /\ Predecessors(Collection, hist[i + 1].first) = NewSerials(hist[i - 1])

\* C5: Background(s1); Run(s2); Parallel(s3,s4,s5); Run(s6); Background(s7)
\* on a fresh client yields the edge map {0:[1,3,10], 3:[7], 7:[9]}.
C5_BackgroundScenarioEdges ==
    (Calls = Scenario2) =>
        EdgeMap(Collection) = (0 :> <<1, 3, 10>> @@ 3 :> <<7>> @@ 7 :> <<9>>)

RECURSIVE Reachable(_, _)
Reachable(c, S) ==
    LET more == S \cup {e[2] : e \in {x \in Range(c.edges) : x[1] \in S}}
    IN  IF more = S THEN S ELSE Reachable(c, more)

\* The nodes that can be reached from x along one edge or more.
Descendants(c, x) == Reachable(c, Range(Successors(c, x)))

\* C18: the step graph has no cycle, and every node other than the root can
\* be reached from the root (serial 0).
C18_AcyclicAndRooted ==
    LET all == Range(Serials(Collection.nodes)) \cup {RootSerial}
    IN  /\ \A x \in all : x \notin Descendants(Collection, x)
        /\ all \subseteq Reachable(Collection, {RootSerial})
        /\ \A e \in Range(Collection.edges) : e[1] \in all /\ e[2] \in all

\* A graph with a background step, a fan-out and a fan-in behind it.
C18_Witness ==
    /\ \E i \in 1..Len(Collection.nodes) :
          Collection.nodes[i].Type = StepTypeBackground
    /\ \E x \in Range(Serials(Collection.nodes)) :
          /\ Cardinality(Predecessors(Collection, x)) >= 2
          /\ Successors(Collection, x) # <<>>
    /\ Len(Collection.nodes) >= 5

(***************************************************************************)
(* Properties of the execution.                                            *)
(***************************************************************************)
\* Every container was created and no step of the current frontier has
\* returned an error.
NoStepFailed == walkRet # "create" /\ firstFailed = 0

\* C6: for Run(s1); Parallel(s2,s3,s4); Run(s5) the step visitor receives the
\* frontiers [s1], [s2,s3,s4], [s5] in this order and no other; when the
\* steps succeed (within the wait group's timeout) all three are delivered
\* and the walk returns no error.
C6_BasicPipelineFrontiers ==
    (Calls = Scenario1) =>
        LET expected == << <<1>>, <<2, 3, 4>>, <<5>> >>
        IN  /\ Len(delivered) <= Len(expected)
            /\ delivered = SubSeq(expected, 1, Len(delivered))
            /\ (walkPC = "returned" /\ NoStepFailed /\ timeout > MaxDur) =>
                   (delivered = expected /\ walkRet = "nil")

C6_Witness ==
    /\ Calls = Scenario1
    /\ walkPC = "returned"
    /\ walkRet = "nil"
    /\ delivered = << <<1>>, <<2, 3, 4>>, <<5>> >>
    /\ \A i \in 1..Len(gs) : gs[i].ret = "nil"

\* The step taken starts the tasks of the next frontier.
C7_NextFrontierStarts == delivered' # delivered /\ waitPC' = "select"

C7_AllReturnedNil == \A i \in 1..Len(gs) : gs[i].pc = "done" /\ gs[i].ret = "nil"

\* C7: the tasks of the next frontier are started only when every task of
\* the current one has returned, and Wait returns nil only when every
\* function of the group has returned, each of them nil.
C7_FrontierBarrier ==
    [][ /\ C7_NextFrontierStarts => C7_AllReturnedNil
        /\ (waitRet = "nil")' => C7_AllReturnedNil' ]_vars

C7_Witness ==
    /\ Len(delivered) = 3
    /\ Len(delivered[2]) = 3
    /\ waitPC = "select"
    /\ Len(gs) = 1
    /\ gs[1].pc = "running"

\* C8: when a task of a frontier returns an error while siblings are still
\* running, Wait returns that error and the running siblings are cancelled.
C8_SiblingsCancelled ==
    (waitPC = "returned" /\ waitRet = "error") =>
        \A i \in 1..Len(gs) : gs[i].pc = "running" => ctxDone

C10_ZeroTimeoutTimesOut ==
    (timeout = 0 /\ waitPC = "returned") => waitRet = "time out"

\* The step visitor's call for the last delivered frontier returned an error.
C11_VisitorFailed ==
    \/ walkRet = "create"
    \/ waitPC = "returned" /\ waitRet # "nil"

\* The steps that have been invoked so far are those of delivered frontiers.
C11_Invoked == Range(Flatten(delivered))

C11_NoLaterFrontier ==
    (C11_VisitorFailed \/ firstFailed # 0) =>
        /\ delivered' = delivered
        /\ {gs'[i].id : i \in 1..Len(gs')} = {gs[i].id : i \in 1..Len(gs)}

C11_RunReturnsStepError ==
    walkPC = "returned" =>
        /\ firstFailed # 0 => walkRet # "nil"
        /\ walkRet = "error" =>
               /\ waitErrOf = firstFailed
               /\ firstFailed \in Range(delivered[Len(delivered)])
        /\ walkRet \notin {"nil", "create"} => walkRet = waitRet
        /\ walkRet # "nil" => Len(delivered) >= 1

NonSub(f) == {q.Serial : q \in {q \in Range(pipelines[f]) : q.Type # StepTypeSubPipeline}}
SubPipelines == {q.Serial : q \in {q \in Range(Flatten(pipelines)) : q.Type = StepTypeSubPipeline}}

\* C12: the error of a sub-pipeline's walk is logged and nothing else: an
\* error returned by the pipeline visitor or by Done after the compilation is
\* the error of a pipeline of the current frontier that is not a
\* sub-pipeline, and when Done returns nil every pipeline that is not a
\* sub-pipeline has been walked to the end, whatever the sub-pipelines did.
C12_SubPipelineErrorOnlyLogged ==
    /\ \A i \in SubPipelines : pwalk[i] = "error" => i \in sublog
    /\ sublog \subseteq SubPipelines
    /\ pjoin = "error" => \E i \in NonSub(pidx) : pwalk[i] = "error"
    /\ doneRet = "error" => \E i \in NonSub(pidx) : pwalk[i] = "error"
    /\ doneRet = "nil" =>
          \A f \in 1..Len(pipelines) : \A i \in NonSub(f) : pwalk[i] = "nil"

\* A sub-pipeline of the first frontier failed and was logged; the pipeline
\* of the second frontier ran and Done returned nil.
C12_Witness ==
    /\ Len(pipelines) = 2
    /\ donePC = "returned"
    /\ doneRet = "nil"
    /\ \E i \in SubPipelines :
          /\ i \in {q.Serial : q \in Range(pipelines[1])}
          /\ pwalk[i] = "error"
          /\ i \in sublog
    /\ \E i \in NonSub(2) : pwalk[i] = "nil"

\* C13: the visitor's join is on the pipelines of the current frontier that
\* are not sub-pipelines, and on nothing else: a frontier is started, and the
\* visitor returns nil, only when all of them in the frontiers before have
\* finished; the pipelines of a frontier are started together; and the join
\* completes as soon as they have finished, whether or not a sub-pipeline is
\* still running.
C13_PipelineJoin ==
    /\ \A f \in 1..Len(pipelines) : \A i \in NonSub(f) :
          /\ f < pidx => pwalk[i] = "nil"
          /\ (f = pidx /\ pjoin = "nil") => pwalk[i] = "nil"
    /\ \A f \in 1..Len(pipelines) : \A q \in Range(pipelines[f]) :
          pwalk[q.Serial] = "pending" <=> f > pidx
    /\ (pjoin = "waiting" /\ \A i \in NonSub(pidx) : pwalk[i] = "nil")
          => ENABLED PipelineWaitNil

\* Done returned nil for a frontier of two pipelines and a sub-pipeline
\* while the sub-pipeline was still running.
C13_Witness ==
    /\ Len(pipelines) = 1
    /\ Len(pipelines[1]) = 3
    /\ NonSub(1) = {1, 2}
    /\ donePC = "returned"
    /\ doneRet = "nil"
    /\ pwalk = <<"nil", "nil", "running">>

\* C14: when Done has returned, the run's network and its pipeline volume
\* no longer exist.
C14_TeardownBeforeReturn ==
    donePC = "returned" => (network # "created" /\ volume # "created")

(***************************************************************************)
(* Properties of the validation.                                           *)
(***************************************************************************)
Appended == Range(Serials(Collection.nodes))
NodeOf(x) == CHOOSE nd \in Range(Collection.nodes) : nd.Serial = x

\* The serial of step j of call i, and the step as its call declared it.
SerialOf(i, j) == hist[i].first + j - 1
InputOf(i, j) == hist[i].steps[j]

\* C15: a step declared with an empty Image receives the default image in
\* Setup, before it is validated: the container backend's validator accepts
\* it, the step is appended with the default image, and no validation error
\* is raised by Run, Parallel or Background.
C15_EmptyImageGetsDefault ==
    client = "docker" =>
        /\ ~exited
        /\ fatal = ""
        /\ \A i \in 1..Len(hist) : \A j \in 1..hist[i].k :
              /\ SerialOf(i, j) \in Appended
              /\ NodeOf(SerialOf(i, j)).Image =
                    IF InputOf(i, j).Image = "" THEN DefaultImage(Version)
                    ELSE InputOf(i, j).Image

\* Run(step without name or image) on the container backend: the step is
\* in the graph with the default image.
C15_Witness ==
    /\ client = "docker"
    /\ Len(hist) = 1
    /\ hist[1].op = "Run"
    /\ hist[1].steps = << [Name |-> "", Image |-> ""] >>
    /\ ~exited
    /\ Len(Collection.nodes) = 1
    /\ Collection.nodes[1].Image = "shipwright:v1"

\* C15 as stated: a step declared by Run with an empty Image is rejected with
\* "[name: <name>, id: <serial>] no image provided" and is not appended.
C15_EmptyImageRejected ==
    \A i \in 1..Len(hist) : \A j \in 1..hist[i].k :
        (client = "docker" /\ hist[i].op = "Run" /\ InputOf(i, j).Image = "") =>
            /\ exited
            /\ fatal = formatError([Name |-> InputOf(i, j).Name,
                                    Serial |-> SerialOf(i, j)],
                                   "no image provided")
            /\ SerialOf(i, j) \notin Appended

\* The backend's answer for step j of call i.
Verdict(i, j) ==
    Validate(client, SetupSteps(hist[i].first, hist[i].steps)[j], hist[i].says[j])

Rejecting(i) ==
    {j \in 1..hist[i].k : Verdict(i, j) \notin {"", ErrorSkipValidation}}

FirstRejected(i) == CHOOSE j \in Rejecting(i) : \A o \in Rejecting(i) : j <= o

\* The warnings of call i: one for each step answered with
\* ErrorSkipValidation that comes before the first rejected step.
ExpectedWarnings(i) ==
    LET upto == IF Rejecting(i) = {} THEN hist[i].k ELSE FirstRejected(i)
        idx  == SelectSeq([j \in 1..hist[i].k |-> j],
                          LAMBDA j : j <= upto /\ Verdict(i, j) = ErrorSkipValidation)
    IN  [m \in 1..Len(idx) |->
            formatError([Name |-> InputOf(i, idx[m]).Name,
                         Serial |-> SerialOf(i, idx[m])],
                        ErrorSkipValidation)]

\* C16: a step the validator answers with ErrorSkipValidation is logged as a
\* warning and validation goes on: when no step of the batch gets another
\* error the whole batch, skipped steps included, is appended; any other
\* error ends the call with the formatted error of the first such step, and
\* nothing of the batch is appended and no later step is validated.
C16_SkipValidationContinues ==
    /\ warned = Flatten([i \in 1..Len(hist) |-> ExpectedWarnings(i)])
    /\ \A i \in 1..Len(hist) :
          IF Rejecting(i) = {}
          THEN \A j \in 1..hist[i].k : SerialOf(i, j) \in Appended
          ELSE /\ i = Len(hist)
               /\ exited
               /\ fatal = formatError([Name |-> InputOf(i, FirstRejected(i)).Name,
                                       Serial |-> SerialOf(i, FirstRejected(i))],
                                      Verdict(i, FirstRejected(i)))
               /\ \A j \in 1..hist[i].k : SerialOf(i, j) \notin Appended
    /\ exited => (hist # <<>> /\ Rejecting(Len(hist)) # {})

\* A skipped step was appended by the first call; the second call skipped
\* its first step and was rejected at its second.
C16_Witness ==
    /\ client = "custom"
    /\ Len(hist) = 2
    /\ hist[1].says = << ErrorSkipValidation >>
    /\ hist[2].says = << ErrorSkipValidation, ErrorInvalid >>
    /\ Appended = {1}
    /\ exited
    /\ Len(warned) = 2
    /\ fatal = "[name: build, id: 3] invalid step"

(***************************************************************************)
(* Properties of the log wrapper.                                          *)
(***************************************************************************)
\* C19: a step without Content is handed to the inner visitor as it was
\* given, at the same position and with Content still nil, and nothing is
\* logged for it; a step with Content differs from the one given in its
\* Content only.
C19_NilActionPassesThrough ==
    /\ wrapPC = "called" => \A i \in 1..Len(exec) : exec[i].log = <<>>
    /\ wrapPC \in {"visiting", "returned"} =>
          /\ Len(handed) = Len(frontier)
          /\ \A i \in 1..Len(frontier) :
                IF frontier[i].Content = "nil"
                THEN /\ handed[i] = frontier[i]
                     /\ exec[i].log = <<>>
                ELSE [handed[i] EXCEPT !.Content = "action"] = frontier[i]

\* A frontier of a step with an action and a step without: the visitor has
\* returned, the first step has been logged and the second has been run.
C19_Witness ==
    /\ Len(frontier) = 2
    /\ frontier[1].Content = "action"
    /\ frontier[2].Content = "nil"
    /\ wrapPC = "returned"
    /\ handed[2].Content = "nil"
    /\ exec[2].pc = "finished"
    /\ exec[2].log = <<>>
    /\ Len(exec[1].log) >= 2

\* The entries of step i with a message of ms.
Entries(i, ms) == SelectSeq(exec[i].log, LAMBDA e : e.msg \in ms)

\* C20: the first entry of an executed Content is the start, and there is
\* one start only, so it comes before every line; no outcome is logged
\* before the action has returned, and when the Content has returned exactly
\* one outcome has been logged, the error when the action returned one and
\* the success when it returned nil; the Content returns what the action
\* returned.
C20_StartedThenOneOutcome ==
    \A i \in 1..Len(exec) :
        /\ exec[i].pc = "idle" => exec[i].log = <<>>
        /\ exec[i].log # <<>> =>
              /\ exec[i].log[1].msg = MsgStarting
              /\ Len(Entries(i, {MsgStarting})) = 1
        /\ exec[i].pc \in {"running", "returned"} =>
              Entries(i, {MsgError, MsgDone}) = <<>>
        /\ (exec[i].pc = "finished" /\ frontier[i].Content # "nil") =>
              /\ Len(Entries(i, {MsgError, MsgDone})) = 1
              /\ Entries(i, {MsgError}) # <<>> <=> exec[i].ret # "nil"
              /\ exec[i].wret = exec[i].ret

\* The action of a step wrote a line and failed: the start, the line and
\* the error have been logged in this order and the Content returned the
\* action's error.
C20_Witness ==
    /\ Len(exec) >= 1
    /\ exec[1].pc = "finished"
    /\ exec[1].wret = "failed"
    /\ exec[1].log = << Entry(MsgStarting, ""), Entry(MsgLine, "stdout"),
                        Entry(MsgError, "") >>

(***************************************************************************)
(* Further properties of the wait group, the validation and Client.Done.   *)
(***************************************************************************)
\* C23: when Wait has returned, no goroutine it started is blocked in the
\* send of its error: nothing receives from errChan any more, so such a
\* goroutine never reaches wg.Done() and never ends.
C23_NoGoroutineBlockedAfterWait ==
    waitPC = "returned" => \A i \in 1..Len(gs) : gs[i].pc # "send"

\* The call that has just been made was rejected by the validator.
C24_Rejected ==
    /\ Len(hist') = Len(hist) + 1
    /\ (Rejecting(Len(hist)) # {})'

\* C24: a call of Run, Parallel or Background in which the validator rejects
\* a step leaves the step graph as it was: no step of the batch is appended,
\* neither the steps before the rejected one nor those after it.
C24_RejectedBatchAppendsNothing ==
    [][C24_Rejected => (Collection' = Collection /\ exited')]_vars

\* Run(s2, s3) after an accepted call: s2 is valid, s3 is rejected, and the
\* graph still holds the first call's step only.
C24_Witness ==
    /\ client = "custom"
    /\ Len(hist) = 2
    /\ hist[1].k = 1
    /\ hist[2].op = "Run"
    /\ hist[2].says = << "", ErrorInvalid >>
    /\ exited
    /\ n = 4
    /\ Serials(Collection.nodes) = <<1>>

\* C25: when CreateNetwork has failed, Done has returned an error, the
\* compile container has not been created and no pipeline's steps have been
\* started.
C25_NetworkFailureEndsDone ==
    network = "failed" =>
        /\ donePC = "returned"
        /\ doneRet \notin {"none", "nil"}
        /\ container = "none"
        /\ \A i \in 1..Len(pwalk) : pwalk[i] = "pending"

(***************************************************************************)
(* Properties of Shipwright.Done.                                          *)
(***************************************************************************)
\* C21: with -step set to the serial of an appended step, the collection the
\* backend walks has one frontier, which holds that step only: no other
\* frontier is visited and no other step is run, and when the run succeeds
\* the frontier has been visited.
C21_OnlyTheStepRuns ==
    (argStep # 0 /\ status \notin {"none", "panic"}) =>
        /\ Frontiers(Collection) = << <<argStep>> >>
        /\ Len(delivered) <= 1
        /\ \A f \in 1..Len(delivered) : delivered[f] = <<argStep>>
        /\ \A i \in 1..Len(gs) : gs[i].id = argStep
        /\ orphans \subseteq {argStep}
        /\ status = "success" => delivered = << <<argStep>> >>

\* Scenario 1 with -step=3: the run succeeded and the one frontier visited
\* is the one of s3.
C21_Witness ==
    /\ Calls = Scenario1
    /\ argStep = 3
    /\ status = "success"
    /\ delivered = << <<3>> >>
    /\ Len(gs) = 1
    /\ gs[1].pc = "done"

\* C22: when the signal watcher has fired and the run has ended with the
\* status "cancelled", the run's context has been cancelled and no step's
\* container is left running.
C22_SignalStopsContainers ==
    status = "cancelled" => (ctxDone /\ orphans = {})

====
